---------------------------- MODULE Spec2Model ----------------------------
(***************************************************************************)
(* Model of the cm256-backed Reed-Solomon erasure codec                    *)
(* (src/src/cm256.rs, src/src/cm256_ffi.rs).                               *)
(*                                                                         *)
(* Three layers:                                                           *)
(*   - GF(256) arithmetic and the native cm256 primitives                  *)
(*     (cm256_encode_block, cm256_decode, cm256_init_), which the Rust     *)
(*     code only declares: they are modelled from the specification        *)
(*     (Cauchy matrix over GF(256), decode solves the linear system);      *)
(*   - the pure Rust operations of CM256ReedSolomon as operators;          *)
(*   - state machines: SpecNew (threads constructing codecs through the    *)
(*     process-wide Once), Spec (a caller driving one codec over one       *)
(*     shard set of short shards), SpecValidate (reconstruct on slot       *)
(*     lists of every shape) and SpecWide (the caller of Spec with shards  *)
(*     up to and beyond the range of c_int).                               *)
(* Two further state machines cover the SIMD codec's entry point           *)
(* (src/src/isa_l.rs, SpecIsaL) and the calibration harness                *)
(* (src/benches/min_shards.rs, SpecBench).                                 *)
(***************************************************************************)
EXTENDS Integers, Sequences, FiniteSets, TLC

VARIABLES
    \* ---- process-wide initialisation and the threads calling new() ----
    once,        \* state of CM256_INIT: "incomplete" | "running" | "complete" | "poisoned"
    initRuns,    \* how many times the native cm256 initialisation has run
    initFailed,  \* TRUE once the native cm256 initialisation has returned failure
    pc,          \* per thread: position inside new()
    arg,         \* per thread: the (data_shards, parity_shards) of its current call
    ret,         \* per thread: outcome of its last finished call to new()
    \* ---- one codec and the caller-owned shard set it works on ----
    codec,       \* the CM256ReedSolomon in use
    shards,      \* the caller's slots: sequence of [some, v]
    last,        \* the last operation: name, result, primitive call counts
    pre,         \* the shard set as it was passed to the last operation
    enc,         \* the shard set right after the last successful encode
    input,       \* the shard set the caller started from
    \* ---- one call of try_code_some_slices ----
    isal,        \* its arguments, position and outcome
    \* ---- one run of the calibration harness ----
    bench,       \* run_parent: candidates, position, measurements, best so far
    \* ---- the build of the crate ----
    build        \* "debug" (debug_assert! and overflow checks on) or "release"

vars == <<once, initRuns, initFailed, pc, arg, ret,
          codec, shards, last, pre, enc, input, isal, bench, build>>

newVars   == <<once, initRuns, initFailed, pc, arg, ret>>
codecVars == <<codec, shards, last, pre, enc, input>>
auxVars   == <<isal, bench, build>>

-----------------------------------------------------------------------------
(* Bounds of the model.                                                    *)

MaxData    == 2      \* largest data_shard_count of the codec driven in Spec
MaxParity  == 2      \* largest parity_shard_count of the codec driven in Spec
MaxLen     == 2      \* longest shard, in bytes
MaxThreads == 2      \* threads calling new() concurrently

\* The integer types keep their width, scaled down so that every value is a
\* small number: usize and isize have UsizeBits bits, and c_int has half as
\* many (32 of 64 on a 64-bit target), enough for 256.
UsizeBits == 20
CIntBits  == UsizeBits \div 2

UsizeRange == 2 ^ UsizeBits
UsizeMax   == 2 ^ UsizeBits - 1
IsizeMax   == 2 ^ (UsizeBits - 1) - 1
CIntMax    == 2 ^ (CIntBits - 1) - 1
\* size_of::<*mut u8>()
PtrBytes   == UsizeBits \div 8

Builds == {"debug", "release"}

\* a + b and a * b on usize in a build without overflow checks
wrapping_add(a, b) == (a + b) % UsizeRange
wrapping_mul(a, b) == (a * b) % UsizeRange

\* `x as c_int` for a usize x: the low CIntBits bits, read as signed
as_c_int(x) ==
    LET low == x % (2 ^ CIntBits)
    IN  IF low > CIntMax THEN low - 2 ^ CIntBits ELSE low

\* the caller's data patterns: byte p of data shard i is (seed * (i + p)) % 256
DataSeeds == {0, 1, 183}
\* bit masks used to change one byte of a parity shard
FlipMasks == {1, 128, 255}

-----------------------------------------------------------------------------
(* GF(256) as the cm256 library builds it: generator 2, polynomial 0x14D.  *)

GF256Polynomial == 333

RECURSIVE Xor(_, _)
Xor(a, b) ==
    IF a = 0 THEN b
    ELSE IF b = 0 THEN a
    ELSE ((a + b) % 2) + 2 * Xor(a \div 2, b \div 2)

\* multiplication by the generator x = 2 (one step of gf256_explog_init)
TimesTwo(v) ==
    LET next == 2 * v
    IN  IF next >= 256 THEN Xor(next, GF256Polynomial) ELSE next

\* the n consecutive powers of 2 that start with the value first
RECURSIVE ExpRun(_, _)
ExpRun(first, n) ==
    IF n = 1 THEN <<first>>
    ELSE LET left == ExpRun(first, n \div 2)
         IN  left \o ExpRun(TimesTwo(left[Len(left)]), n - (n \div 2))

\* GF256_EXP_TABLE[j] is at position j+1
GF256_EXP_TABLE == ExpRun(1, 255)

\* logtab[exptab[j]] = j, for j in lo..hi
RECURSIVE LogRun(_, _)
LogRun(lo, hi) ==
    IF lo = hi THEN GF256_EXP_TABLE[lo + 1] :> lo
    ELSE LET mid == (lo + hi) \div 2
         IN  LogRun(lo, mid) @@ LogRun(mid + 1, hi)

GF256_LOG_TABLE == LogRun(0, 254)

gf256_mul(a, b) ==
    IF a = 0 \/ b = 0 THEN 0
    ELSE GF256_EXP_TABLE[((GF256_LOG_TABLE[a] + GF256_LOG_TABLE[b]) % 255) + 1]

\* b # 0
gf256_div(a, b) ==
    IF a = 0 THEN 0
    ELSE GF256_EXP_TABLE[((GF256_LOG_TABLE[a] + 255 - GF256_LOG_TABLE[b]) % 255) + 1]

\* element of the Cauchy matrix, normalised so that row x_0 is all ones
GetMatrixElement(x_i, x_0, y_j) ==
    gf256_div(Xor(y_j, x_0), Xor(x_i, y_j))

-----------------------------------------------------------------------------
(* The native cm256 primitives.  A block descriptor is [block, index]; a   *)
(* buffer is a sequence of bytes; params is [original_count,               *)
(* recovery_count, block_bytes].                                           *)

\* gf256_add_mem: byte-wise sum of two buffers of n bytes
AddMem(a, b, n) == [p \in 1..n |-> Xor(a[p], b[p])]

\* gf256_mul_mem: buffer a of n bytes scaled by the field element c
MulMem(c, a, n) == [p \in 1..n |-> gf256_mul(c, a[p])]

ZeroMem(n) == [p \in 1..n |-> 0]

\* the buffer buf after the bytes given are stored at its start: a primitive
\* writes block_bytes bytes through the pointer it is handed, whatever the
\* length of the buffer behind it
WriteMem(buf, bytes) == bytes \o SubSeq(buf, Len(bytes) + 1, Len(buf))

\* sum over the original columns j..original_count-1 of
\* GetMatrixElement(x_i, x_0, j) * originals[j], added to acc
RECURSIVE EncodeRow(_, _, _, _, _)
EncodeRow(params, originals, x_i, j, acc) ==
    IF j = params.original_count THEN acc
    ELSE EncodeRow(params, originals, x_i, j + 1,
                   AddMem(acc,
                          MulMem(GetMatrixElement(x_i, params.original_count % 256, j % 256),
                                 originals[j + 1].block, params.block_bytes),
                          params.block_bytes))

\* XOR of the blocks originals[j..original_count-1], added to acc
RECURSIVE ParityRow(_, _, _, _)
ParityRow(params, originals, j, acc) ==
    IF j = params.original_count THEN acc
    ELSE ParityRow(params, originals, j + 1,
                   AddMem(acc, originals[j + 1].block, params.block_bytes))

\* the bytes cm256_encode_block writes into the recovery block.  The routine
\* does not validate its parameters; for a byte count that is not positive
\* this is no byte at all, and the call may also end the process (the step
\* EncodeBlockFault).
cm256_encode_block(params, originals, recovery_block_index) ==
    IF params.original_count = 1
    THEN SubSeq(originals[1].block, 1, params.block_bytes)
    ELSE IF recovery_block_index = params.original_count
    THEN ParityRow(params, originals, 0, ZeroMem(params.block_bytes))
    ELSE EncodeRow(params, originals, recovery_block_index % 256, 0,
                   ZeroMem(params.block_bytes))

\* XOR of f[i] for i in lo..hi
RECURSIVE XorSum(_, _, _)
XorSum(f, lo, hi) == IF lo > hi THEN 0 ELSE Xor(f[lo], XorSum(f, lo + 1, hi))

\* determinant over GF(256) of the n x n matrix M (Laplace expansion, row 1)
RECURSIVE Det(_, _)
Det(M, n) ==
    IF n = 0 THEN 1
    ELSE IF n = 1 THEN M[1][1]
    ELSE XorSum([c \in 1..n |->
                    gf256_mul(M[1][c],
                              Det([r \in 1..(n - 1) |->
                                      [cc \in 1..(n - 1) |->
                                          M[r + 1][IF cc < c THEN cc ELSE cc + 1]]],
                                  n - 1))],
                1, n)

\* positions (1-based) of the blocks whose index satisfies the test, in order
OriginalPositions(params, blocks) ==
    SelectSeq([i \in 1..params.original_count |-> i],
              LAMBDA i : blocks[i].index < params.original_count)
RecoveryPositions(params, blocks) ==
    SelectSeq([i \in 1..params.original_count |-> i],
              LAMBDA i : blocks[i].index >= params.original_count)

\* CM256Decoder::Initialize: the rows 0..original_count-1 no block carries,
\* ascending
ErasuresIndices(params, blocks) ==
    SelectSeq([i \in 1..params.original_count |-> i - 1],
              LAMBDA row : \A i \in 1..params.original_count : blocks[i].index # row)

\* recovery block r with every original block eliminated from it
RECURSIVE Eliminate(_, _, _, _, _)
Eliminate(params, blocks, origs, x_i, acc) ==
    IF origs = <<>> THEN acc
    ELSE LET o == blocks[Head(origs)]
         IN  Eliminate(params, blocks, Tail(origs), x_i,
                       AddMem(acc,
                              MulMem(GetMatrixElement(x_i, params.original_count % 256,
                                                      o.index),
                                     o.block, params.block_bytes),
                              params.block_bytes))

\* CM256Decoder::Decode: the original data of the erased rows, one buffer
\* per recovery block, in the order of ErasuresIndices
DecodeSolve(params, blocks) ==
    LET recs == RecoveryPositions(params, blocks)
        eras == ErasuresIndices(params, blocks)
        N    == Len(recs)
        A    == [r \in 1..N |-> [c \in 1..N |->
                    GetMatrixElement(blocks[recs[r]].index,
                                     params.original_count % 256, eras[c])]]
        rhs  == [r \in 1..N |->
                    Eliminate(params, blocks, OriginalPositions(params, blocks),
                              blocks[recs[r]].index,
                              SubSeq(blocks[recs[r]].block, 1, params.block_bytes))]
        d    == Det(A, N)
    IN  [c \in 1..N |->
            [p \in 1..params.block_bytes |->
                gf256_div(Det([r \in 1..N |-> [cc \in 1..N |->
                                  IF cc = c THEN rhs[r][p] ELSE A[r][cc]]], N),
                          d)]]

\* CM256Decoder::DecodeM1: the single recovery block is the XOR parity
DecodeM1(params, blocks) ==
    LET recs == RecoveryPositions(params, blocks)
        sum  == [i \in 1..params.original_count |->
                    IF blocks[i].index < params.original_count
                    THEN blocks[i].block ELSE ZeroMem(params.block_bytes)]
    IN  <<[p \in 1..params.block_bytes |->
             Xor(blocks[recs[1]].block[p],
                 XorSum([i \in 1..params.original_count |-> sum[i][p]],
                        1, params.original_count))]>>

\* cm256_decode: [rc, blocks]; on success every recovery block holds the
\* original data of an erased row and carries that row as its index
cm256_decode(params, blocks) ==
    IF params.original_count <= 0 \/ params.recovery_count <= 0
       \/ params.block_bytes <= 0
    THEN [rc |-> -1, blocks |-> blocks]
    ELSE IF params.original_count + params.recovery_count > 256
    THEN [rc |-> -2, blocks |-> blocks]
    ELSE IF params.original_count = 1
    THEN [rc |-> 0, blocks |-> [blocks EXCEPT ![1].index = 0]]
    ELSE IF \E i, j \in 1..params.original_count :
                /\ i < j
                /\ blocks[i].index < params.original_count
                /\ blocks[i].index = blocks[j].index
    THEN [rc |-> -5, blocks |-> blocks]
    ELSE LET recs == RecoveryPositions(params, blocks)
             eras == ErasuresIndices(params, blocks)
             out  == IF params.recovery_count = 1
                     THEN DecodeM1(params, blocks)
                     ELSE DecodeSolve(params, blocks)
         IN  IF recs = <<>>
             THEN [rc |-> 0, blocks |-> blocks]
             ELSE [rc |-> 0,
                   blocks |-> [i \in 1..Len(blocks) |->
                       IF \E r \in 1..Len(recs) : recs[r] = i
                       THEN LET r == CHOOSE r \in 1..Len(recs) : recs[r] = i
                            IN  [block |-> WriteMem(blocks[i].block, out[r]),
                                 index |-> eras[r]]
                       ELSE blocks[i]]]

-----------------------------------------------------------------------------
(* CM256ReedSolomon (src/src/cm256.rs).  A codec is [data_shard_count,     *)
(* parity_shard_count, total_shard_count]; shard indices are 0-based as in *)
(* the code and slot i is shards[i + 1].                                   *)

MaxTotalShards == 256

u8(i) == i % 256

None    == [some |-> FALSE, v |-> <<>>]
Some(v) == [some |-> TRUE, v |-> v]

\* the checks of CM256ReedSolomon::new, before ensure_init.  The sum is a
\* usize sum: when it does not fit, a debug build panics ("attempt to add
\* with overflow") and a release build compares the wrapped sum.
new_check(data_shards, parity_shards) ==
    IF data_shards = 0 THEN "TooFewDataShards"
    ELSE IF parity_shards = 0 THEN "TooFewParityShards"
    ELSE IF build = "debug" /\ data_shards + parity_shards > UsizeMax THEN "panic"
    ELSE IF wrapping_add(data_shards, parity_shards) > MaxTotalShards
    THEN "TooManyShards"
    ELSE "Ok"

\* the value CM256ReedSolomon::new builds; the total is the usize sum, which
\* has wrapped when new() got this far with a sum that does not fit
new_codec(data_shards, parity_shards) ==
    [data_shard_count   |-> data_shards,
     parity_shard_count |-> parity_shards,
     total_shard_count  |-> wrapping_add(data_shards, parity_shards)]

\* the three counts are narrowed to c_int by `as _`
params(self, block_bytes) ==
    [original_count |-> as_c_int(self.data_shard_count),
     recovery_count |-> as_c_int(self.parity_shard_count),
     block_bytes    |-> as_c_int(block_bytes)]

check_all(self, count) ==
    IF count < self.total_shard_count THEN "TooFewShards"
    ELSE IF count > self.total_shard_count THEN "TooManyShards"
    ELSE "Ok"

\* check_slices_uniform looking for an empty buffer anywhere before comparing
\* lengths
check_slices_uniform_any_empty(slices) ==
    IF slices = <<>> THEN "Ok"
    ELSE IF \E i \in 1..Len(slices) : Len(slices[i]) = 0 THEN "EmptyShard"
    ELSE IF \E i \in 2..Len(slices) : Len(slices[i]) # Len(slices[1])
    THEN "IncorrectShardSize"
    ELSE "Ok"

\* slices: a sequence of buffers
check_slices_uniform(slices) ==
    IF slices = <<>> THEN "Ok"
    ELSE IF Len(slices[1]) = 0 THEN "EmptyShard"
    ELSE IF \E i \in 2..Len(slices) : Len(slices[i]) # Len(slices[1])
    THEN "IncorrectShardSize"
    ELSE "Ok"

\* block descriptors of the buffers data[1..], with index = position
DataBlocks(data) == [i \in 1..Len(data) |-> [block |-> data[i], index |-> u8(i - 1)]]

\* encode_raw: the parity buffers after the call, one cm256_encode_block per
\* parity buffer
encode_raw(self, data, parity, shard_size) ==
    [ret    |-> "Ok",
     parity |-> [i \in 1..Len(parity) |->
                    WriteMem(parity[i],
                             cm256_encode_block(params(self, shard_size),
                                                DataBlocks(data),
                                                self.data_shard_count + (i - 1)))],
     encodeCalls |-> Len(parity)]   \* verify_encode_calls counts the same loop

\* encode_blocks_into: the bytes written for each (parity_idx) target
encode_blocks_into(prm, blocks, data_shard_count, targets) ==
    [t \in 1..Len(targets) |->
        cm256_encode_block(prm, blocks, data_shard_count + targets[t])]

\* encode over a list of buffers: [ret, slices]
encode(self, slices) ==
    IF check_all(self, Len(slices)) # "Ok"
    THEN [ret |-> check_all(self, Len(slices)), slices |-> slices, encodeCalls |-> 0]
    ELSE IF check_slices_uniform(slices) # "Ok"
    THEN [ret |-> check_slices_uniform(slices), slices |-> slices, encodeCalls |-> 0]
    ELSE LET shard_size == Len(slices[1])
             data   == SubSeq(slices, 1, self.data_shard_count)
             parity == SubSeq(slices, self.data_shard_count + 1, Len(slices))
             r      == encode_raw(self, data, parity, shard_size)
         IN  [ret |-> r.ret, slices |-> data \o r.parity, encodeCalls |-> r.encodeCalls]

\* encode_sep over separate data and parity lists: [ret, parity]
encode_sep(self, data, parity) ==
    LET unchanged(r) == [ret |-> r, parity |-> parity, encodeCalls |-> 0]
    IN  IF Len(data) < self.data_shard_count THEN unchanged("TooFewDataShards")
        ELSE IF Len(data) > self.data_shard_count THEN unchanged("TooManyDataShards")
        ELSE IF Len(parity) < self.parity_shard_count
        THEN unchanged("TooFewParityShards")
        ELSE IF Len(parity) > self.parity_shard_count
        THEN unchanged("TooManyParityShards")
        ELSE IF Len(data[1]) = 0 THEN unchanged("EmptyShard")
        ELSE IF \E i \in 1..Len(data) : Len(data[i]) # Len(data[1])
        THEN unchanged("IncorrectShardSize")
        ELSE IF \E i \in 1..Len(parity) : Len(parity[i]) # Len(data[1])
        THEN unchanged("IncorrectShardSize")
        ELSE encode_raw(self, data, parity, Len(data[1]))

\* verify over a list of buffers: "Ok(true)", "Ok(false)" or the error
verify(self, slices) ==
    IF check_all(self, Len(slices)) # "Ok" THEN check_all(self, Len(slices))
    ELSE IF check_slices_uniform(slices) # "Ok" THEN check_slices_uniform(slices)
    ELSE LET shard_size == Len(slices[1])
             data == SubSeq(slices, 1, self.data_shard_count)
             existing_parity == SubSeq(slices, self.data_shard_count + 1, Len(slices))
             buf == encode_raw(self, data,
                               [i \in 1..self.parity_shard_count |-> ZeroMem(shard_size)],
                               shard_size).parity
         IN  IF \E i \in 1..Len(buf) : i <= Len(existing_parity) /\ buf[i] # existing_parity[i]
             THEN "Ok(false)"
             ELSE "Ok(true)"

\* the cm256_encode_block calls verify makes: those of its encode_raw, none
\* when a check fails
verify_encode_calls(self, slices) ==
    IF check_all(self, Len(slices)) # "Ok" THEN 0
    ELSE IF check_slices_uniform(slices) # "Ok" THEN 0
    ELSE self.parity_shard_count   \* one per buffer of buf, in encode_raw

\* a variant of the scan that compares a present slot's length with the
\* shard size before it tests the slot for emptiness
RECURSIVE ScanPresent_size_first(_, _, _, _)
ScanPresent_size_first(slots, i, shard_size, present) ==
    IF i = Len(slots) THEN [err |-> "Ok", shard_size |-> shard_size, present |-> present]
    ELSE LET s == slots[i + 1]
         IN  IF ~s.some THEN ScanPresent_size_first(slots, i + 1, shard_size, present)
             ELSE IF shard_size # -1 /\ Len(s.v) # shard_size
             THEN [err |-> "IncorrectShardSize", shard_size |-> shard_size,
                   present |-> present]
             ELSE IF Len(s.v) = 0
             THEN [err |-> "EmptyShard", shard_size |-> shard_size, present |-> present]
             ELSE ScanPresent_size_first(slots, i + 1, Len(s.v), present + 1)

\* the scan of reconstruct_internal over the slots i.. : the first length
\* error met, else the shard size (-1 while no slot was present) and the
\* number of present slots
RECURSIVE ScanPresent(_, _, _, _)
ScanPresent(slots, i, shard_size, present) ==
    IF i = Len(slots) THEN [err |-> "Ok", shard_size |-> shard_size, present |-> present]
    ELSE LET s == slots[i + 1]
         IN  IF ~s.some THEN ScanPresent(slots, i + 1, shard_size, present)
             ELSE IF Len(s.v) = 0
             THEN [err |-> "EmptyShard", shard_size |-> shard_size, present |-> present]
             ELSE IF shard_size # -1 /\ Len(s.v) # shard_size
             THEN [err |-> "IncorrectShardSize", shard_size |-> shard_size,
                   present |-> present]
             ELSE ScanPresent(slots, i + 1, Len(s.v), present + 1)

\* indices lo..hi-1 of the slots that are missing, ascending
MissingIn(slots, lo, hi) ==
    SelectSeq([j \in 1..(hi - lo) |-> lo + j - 1], LAMBDA i : ~slots[i + 1].some)

\* a variant whose iterator passes over one slot before it looks
RECURSIVE NextRecovery_skip_one(_, _, _)
NextRecovery_skip_one(slots, ri, total) ==
    IF ri + 1 >= total THEN -1
    ELSE IF slots[ri + 2].some THEN ri + 1
    ELSE NextRecovery_skip_one(slots, ri + 1, total)

\* recovery_iter.next() until a present slot: the slot found, or -1 when the
\* iterator is exhausted
RECURSIVE NextRecovery(_, _, _)
NextRecovery(slots, ri, total) ==
    IF ri >= total THEN -1
    ELSE IF slots[ri + 1].some THEN ri
    ELSE NextRecovery(slots, ri + 1, total)

\* the loop building the block list for cm256_decode, from data index i on,
\* with recovery_iter at ri: [panic, blocks, recovery_entries]; an entry is
\* the 0-based block position of a substitute buffer
RECURSIVE BuildDecodeBlocks(_, _, _, _, _, _)
BuildDecodeBlocks(self, slots, i, ri, blocks, entries) ==
    IF i = self.data_shard_count
    THEN [panic |-> FALSE, blocks |-> blocks, entries |-> entries]
    ELSE IF slots[i + 1].some
    THEN BuildDecodeBlocks(self, slots, i + 1, ri,
                           Append(blocks, [block |-> slots[i + 1].v, index |-> u8(i)]),
                           entries)
    ELSE LET recov_idx == NextRecovery(slots, ri, self.total_shard_count)
         IN  IF recov_idx = -1
             THEN [panic |-> TRUE, blocks |-> blocks, entries |-> entries]
             ELSE BuildDecodeBlocks(self, slots, i + 1, recov_idx + 1,
                                    Append(blocks, [block |-> slots[recov_idx + 1].v,
                                                    index |-> u8(recov_idx)]),
                                    Append(entries, Len(blocks)))

\* the decoded buffers moved into the slot their block's index names
RECURSIVE MoveRecovered(_, _, _)
MoveRecovered(slots, blocks, entries) ==
    IF entries = <<>> THEN slots
    ELSE LET b == blocks[Head(entries) + 1]
         IN  MoveRecovered([slots EXCEPT ![b.index + 1] = Some(b.block)],
                           blocks, Tail(entries))

\* data recovery that takes each substitute out of its parity slot instead of
\* cloning it
RecoverData_take(self, slots, shard_size) ==
    IF MissingIn(slots, 0, self.data_shard_count) = <<>>
    THEN [ret |-> "Ok", shards |-> slots, decodeCalls |-> 0]
    ELSE LET built == BuildDecodeBlocks(self, slots, 0, self.data_shard_count,
                                        <<>>, <<>>)
             dec   == cm256_decode(params(self, shard_size), built.blocks)
             taken == [i \in 1..Len(slots) |->
                          IF \E e \in 1..Len(built.entries) :
                                built.blocks[built.entries[e] + 1].index = i - 1
                          THEN None ELSE slots[i]]
         IN  IF built.panic
             THEN [ret |-> "panic", shards |-> slots, decodeCalls |-> 0]
             ELSE IF dec.rc # 0
             THEN [ret |-> "TooFewShardsPresent", shards |-> taken, decodeCalls |-> 1]
             ELSE [ret |-> "Ok",
                   shards |-> MoveRecovered(taken, dec.blocks, built.entries),
                   decodeCalls |-> 1]

\* data recovery of reconstruct_internal: [ret, shards, decodeCalls]
RecoverData(self, slots, shard_size) ==
    IF MissingIn(slots, 0, self.data_shard_count) = <<>>
    THEN [ret |-> "Ok", shards |-> slots, decodeCalls |-> 0]
    ELSE LET built == BuildDecodeBlocks(self, slots, 0, self.data_shard_count,
                                        <<>>, <<>>)
             dec   == cm256_decode(params(self, shard_size), built.blocks)
         IN  IF built.panic
             THEN [ret |-> "panic", shards |-> slots, decodeCalls |-> 0]
             ELSE IF dec.rc # 0
             THEN [ret |-> "TooFewShardsPresent", shards |-> slots, decodeCalls |-> 1]
             ELSE [ret |-> "Ok",
                   shards |-> MoveRecovered(slots, dec.blocks, built.entries),
                   decodeCalls |-> 1]

\* parity recomputation that re-encodes every parity shard, present or not
RecomputeAllParity(self, slots, shard_size) ==
    LET blocks == [i \in 1..self.data_shard_count |->
                      [block |-> slots[i].v, index |-> u8(i - 1)]]
        bufs   == encode_blocks_into(params(self, shard_size), blocks,
                                     self.data_shard_count,
                                     [t \in 1..self.parity_shard_count |-> t - 1])
    IN  [shards |-> [i \in 1..Len(slots) |->
                        IF i > self.data_shard_count
                        THEN Some(WriteMem(ZeroMem(shard_size),
                                           bufs[i - self.data_shard_count]))
                        ELSE slots[i]],
         encodeCalls |-> self.parity_shard_count]

\* parity recomputation of reconstruct_internal over complete data:
\* [shards, encodeCalls]
RecomputeParity(self, slots, shard_size) ==
    LET parity_missing == MissingIn(slots, self.data_shard_count,
                                    self.total_shard_count)
        blocks  == [i \in 1..self.data_shard_count |->
                       [block |-> slots[i].v, index |-> u8(i - 1)]]
        targets == [t \in 1..Len(parity_missing) |->
                       parity_missing[t] - self.data_shard_count]
        bufs    == encode_blocks_into(params(self, shard_size), blocks,
                                      self.data_shard_count, targets)
    IN  [shards |-> [i \in 1..Len(slots) |->
                        IF \E t \in 1..Len(parity_missing) : parity_missing[t] = i - 1
                        THEN Some(WriteMem(ZeroMem(shard_size),
                                           bufs[CHOOSE t \in 1..Len(parity_missing) :
                                                    parity_missing[t] = i - 1]))
                        ELSE slots[i]],
         encodeCalls |-> Len(parity_missing)]

\* reconstruct_internal as a plain re-encode: no shortcut when nothing is
\* missing, and every parity shard is recomputed
reconstruct_internal_reencode(self, slots, data_only) ==
    LET scan == ScanPresent(slots, 0, -1, 0)
        unchanged(r) == [ret |-> r, shards |-> slots, decodeCalls |-> 0,
                         encodeCalls |-> 0]
    IN  IF check_all(self, Len(slots)) # "Ok" THEN unchanged(check_all(self, Len(slots)))
        ELSE IF scan.err # "Ok" THEN unchanged(scan.err)
        ELSE IF scan.present < self.data_shard_count THEN unchanged("TooFewShardsPresent")
        ELSE IF scan.shard_size = -1 THEN unchanged("panic")
        ELSE LET rec == RecoverData(self, slots, scan.shard_size)
             IN  IF rec.ret # "Ok"
                 THEN [ret |-> rec.ret, shards |-> rec.shards,
                       decodeCalls |-> rec.decodeCalls, encodeCalls |-> 0]
                 ELSE IF data_only
                 THEN [ret |-> "Ok", shards |-> rec.shards,
                       decodeCalls |-> rec.decodeCalls, encodeCalls |-> 0]
                 ELSE LET par == RecomputeAllParity(self, rec.shards, scan.shard_size)
                      IN  [ret |-> "Ok", shards |-> par.shards,
                           decodeCalls |-> rec.decodeCalls,
                           encodeCalls |-> par.encodeCalls]

\* [ret, shards, decodeCalls, encodeCalls]
reconstruct_internal(self, slots, data_only) ==
    LET scan == ScanPresent(slots, 0, -1, 0)
        unchanged(r) == [ret |-> r, shards |-> slots, decodeCalls |-> 0,
                         encodeCalls |-> 0]
    IN  IF check_all(self, Len(slots)) # "Ok" THEN unchanged(check_all(self, Len(slots)))
        ELSE IF scan.err # "Ok" THEN unchanged(scan.err)
        ELSE IF scan.present = self.total_shard_count THEN unchanged("Ok")
        ELSE IF scan.present < self.data_shard_count THEN unchanged("TooFewShardsPresent")
        ELSE IF scan.shard_size = -1 THEN unchanged("panic")
        ELSE LET rec == RecoverData(self, slots, scan.shard_size)
             IN  IF rec.ret # "Ok"
                 THEN [ret |-> rec.ret, shards |-> rec.shards,
                       decodeCalls |-> rec.decodeCalls, encodeCalls |-> 0]
                 ELSE IF data_only
                 THEN [ret |-> "Ok", shards |-> rec.shards,
                       decodeCalls |-> rec.decodeCalls, encodeCalls |-> 0]
                 ELSE LET par == RecomputeParity(self, rec.shards, scan.shard_size)
                      IN  [ret |-> "Ok", shards |-> par.shards,
                           decodeCalls |-> rec.decodeCalls,
                           encodeCalls |-> par.encodeCalls]

reconstruct(self, slots) == reconstruct_internal(self, slots, FALSE)

reconstruct_data(self, slots) == reconstruct_internal(self, slots, TRUE)

-----------------------------------------------------------------------------
(* ensure_init: CM256_INIT.call_once(|| if !init() { panic!() }).          *)

\* call_once that does not wait for a running initialisation
call_once_entry_no_wait(state) ==
    CASE state = "incomplete" -> "run"
      [] state = "running"    -> "return"
      [] state = "complete"   -> "return"
      [] state = "poisoned"   -> "panic"

\* call_once that runs the closure again after a failed initialisation
call_once_entry_retry(state) ==
    CASE state = "incomplete" -> "run"
      [] state = "running"    -> "wait"
      [] state = "complete"   -> "return"
      [] state = "poisoned"   -> "run"

\* what a thread entering call_once does, by the state of the Once
call_once_entry(state) ==
    CASE state = "incomplete" -> "run"      \* it runs the closure
      [] state = "running"    -> "wait"     \* it blocks until the runner is done
      [] state = "complete"   -> "return"   \* nothing to do
      [] state = "poisoned"   -> "panic"    \* a poisoned Once panics its callers

\* the state the closure leaves the Once in: it panics when init() is false
closure_outcome(init_ok) == IF init_ok THEN "complete" ELSE "poisoned"

-----------------------------------------------------------------------------
(* SpecNew: threads calling CM256ReedSolomon::new concurrently.            *)

Threads == 1..MaxThreads

\* arguments the threads pass to new()
DataArgs   == {0, 1, 200, UsizeMax}
ParityArgs == {0, 1, 56, 100}

NoCodec == new_codec(0, 0)
NoRet   == [kind |-> "none",  err |-> "",  codec |-> NoCodec]
Err(e)  == [kind |-> "Err",   err |-> e,   codec |-> NoCodec]
Ok(c)   == [kind |-> "Ok",    err |-> "",  codec |-> c]
Panic   == [kind |-> "panic", err |-> "",  codec |-> NoCodec]

NoOp == [op |-> "none", ret |-> "none", decodeCalls |-> 0, encodeCalls |-> 0]

InitNew ==
    /\ once = "incomplete"
    /\ initRuns = 0
    /\ initFailed = FALSE
    /\ pc = [t \in Threads |-> "idle"]
    /\ arg = [t \in Threads |-> <<0, 0>>]
    /\ ret = [t \in Threads |-> NoRet]
    /\ codec = NoCodec
    /\ shards = <<>>
    /\ last = NoOp
    /\ pre = <<>>
    /\ enc = <<>>
    /\ input = <<>>
    /\ isal = <<>>
    /\ bench = <<>>
    /\ build \in Builds

\* new(): the argument checks; an error returns at once, else on to ensure_init
NewCall(t, data_shards, parity_shards) ==
    /\ pc[t] = "idle"
    /\ arg' = [arg EXCEPT ![t] = <<data_shards, parity_shards>>]
    /\ IF new_check(data_shards, parity_shards) = "panic"
       THEN /\ ret' = [ret EXCEPT ![t] = Panic]
            /\ pc' = pc
       ELSE IF new_check(data_shards, parity_shards) # "Ok"
       THEN /\ ret' = [ret EXCEPT ![t] = Err(new_check(data_shards, parity_shards))]
            /\ pc' = pc
       ELSE /\ ret' = [ret EXCEPT ![t] = NoRet]
            /\ pc' = [pc EXCEPT ![t] = "ensure_init"]
    /\ UNCHANGED <<once, initRuns, initFailed, codecVars, auxVars>>

\* ensure_init(): the thread enters call_once
CallOnce(t) ==
    /\ pc[t] = "ensure_init"
    /\ LET todo == call_once_entry(once)
       IN  /\ once' = IF todo = "run" THEN "running" ELSE once
           /\ pc' = [pc EXCEPT ![t] =
                        CASE todo = "run"    -> "closure"
                          [] todo = "wait"   -> "wait"
                          [] todo = "return" -> "build"
                          [] todo = "panic"  -> "idle"]
           /\ ret' = IF todo = "panic" THEN [ret EXCEPT ![t] = Panic] ELSE ret
    /\ UNCHANGED <<initRuns, initFailed, arg, codecVars, auxVars>>

\* the closure: the native cm256_init_ runs and succeeds or fails
RunInit(t, init_ok) ==
    /\ pc[t] = "closure"
    /\ initRuns' = initRuns + 1
    /\ initFailed' = (initFailed \/ ~init_ok)
    /\ once' = closure_outcome(init_ok)
    /\ IF closure_outcome(init_ok) = "complete"
       THEN /\ pc' = [pc EXCEPT ![t] = "build"]
            /\ ret' = ret
       ELSE /\ pc' = [pc EXCEPT ![t] = "idle"]
            /\ ret' = [ret EXCEPT ![t] = Panic]
    /\ UNCHANGED <<arg, codecVars, auxVars>>

\* a thread blocked in call_once is released when the runner is done
Wake(t) ==
    /\ pc[t] = "wait"
    /\ once \in {"complete", "poisoned"}
    /\ IF once = "complete"
       THEN /\ pc' = [pc EXCEPT ![t] = "build"]
            /\ ret' = ret
       ELSE /\ pc' = [pc EXCEPT ![t] = "idle"]
            /\ ret' = [ret EXCEPT ![t] = Panic]
    /\ UNCHANGED <<once, initRuns, initFailed, arg, codecVars, auxVars>>

\* new() returns Ok(CM256ReedSolomon { .. })
ReturnCodec(t) ==
    /\ pc[t] = "build"
    /\ ret' = [ret EXCEPT ![t] = Ok(new_codec(arg[t][1], arg[t][2]))]
    /\ pc' = [pc EXCEPT ![t] = "idle"]
    /\ UNCHANGED <<once, initRuns, initFailed, arg, codecVars, auxVars>>

NextNew ==
    \/ \E t \in Threads : \E d \in DataArgs : \E p \in ParityArgs : NewCall(t, d, p)
    \/ \E t \in Threads : CallOnce(t)
    \/ \E t \in Threads : \E init_ok \in BOOLEAN : RunInit(t, init_ok)
    \/ \E t \in Threads : Wake(t)
    \/ \E t \in Threads : ReturnCodec(t)

SpecNew == InitNew /\ [][NextNew]_vars

-----------------------------------------------------------------------------
(* Spec: a caller holding one codec and one shard set.                     *)

\* the buffers of a list of slots, and back
Buffers(slots) == [i \in 1..Len(slots) |-> slots[i].v]
Present(bufs)  == [i \in 1..Len(bufs) |-> Some(bufs[i])]

AllPresent(slots) == \A i \in 1..Len(slots) : slots[i].some
NumPresent(slots) == Cardinality({i \in 1..Len(slots) : slots[i].some})

\* the codecs the caller may hold
Codecs == {new_codec(d, p) : d \in 1..MaxData, p \in 1..MaxParity}

\* well-formed input: total_shard_count buffers of len bytes, the data
\* buffers filled with one of the caller's patterns, the parity buffers zeroed
WellFormed(c, len) ==
    {[i \in 1..c.total_shard_count |->
         [p \in 1..len |-> IF i <= c.data_shard_count THEN (seed * (i + p)) % 256 ELSE 0]] :
        seed \in DataSeeds}

\* the same lists with one defect: a buffer dropped or added, one buffer of
\* another length, or every buffer empty
Malformed(c, len) ==
    LET good == [i \in 1..c.total_shard_count |->
                    [p \in 1..len |-> IF i <= c.data_shard_count THEN 183 ELSE 0]]
    IN  {SubSeq(good, 1, c.total_shard_count - 1), Append(good, ZeroMem(len)),
         [i \in 1..c.total_shard_count |-> <<>>]}
        \cup {[good EXCEPT ![i] = [p \in 1..l |-> 1]] :
                 i \in 1..c.total_shard_count, l \in {0, (len % MaxLen) + 1} \ {len}}

\* the lists the caller starts from
Inputs(c) == UNION {WellFormed(c, len) \cup Malformed(c, len) : len \in 1..MaxLen}

Init ==
    /\ once = "complete"
    /\ initRuns = 1
    /\ initFailed = FALSE
    /\ pc = [t \in Threads |-> "idle"]
    /\ arg = [t \in Threads |-> <<0, 0>>]
    /\ ret = [t \in Threads |-> NoRet]
    /\ codec \in Codecs
    /\ shards \in {Present(b) : b \in Inputs(codec)}
    /\ last = NoOp
    /\ pre = shards
    /\ enc = <<>>
    /\ input = shards
    /\ isal = <<>>
    /\ bench = <<>>
    /\ build = "release"   \* no step of this specification differs between builds

\* the process has not been ended by a fault in a native call
Alive == last.ret # "crash"

\* every present slot holds what it holds in the list ref
AgreesWith(slots, ref) ==
    /\ Len(slots) = Len(ref)
    /\ \A i \in 1..Len(slots) : slots[i].some => slots[i] = ref[i]

\* rs.encode(&mut shards) on a list of buffers: one of the caller's inputs,
\* or the data last encoded
Encode ==
    /\ Alive
    /\ AllPresent(shards)
    /\ \/ Buffers(shards) \in Inputs(codec)
       \/ shards = input
       \/ /\ enc # <<>>
          /\ SubSeq(shards, 1, codec.data_shard_count)
                 = SubSeq(enc, 1, codec.data_shard_count)
    /\ LET r == encode(codec, Buffers(shards))
       IN  /\ shards' = Present(r.slices)
           /\ last' = [op |-> "encode", ret |-> r.ret, decodeCalls |-> 0,
                       encodeCalls |-> r.encodeCalls]
           /\ enc' = IF r.ret = "Ok" THEN Present(r.slices) ELSE enc
    /\ pre' = shards
    /\ UNCHANGED <<newVars, auxVars, codec, input>>

\* rs.encode_sep(&data, &mut parity), the caller passing the first n of its
\* buffers as data and the others as parity
EncodeSep(n) ==
    /\ Alive
    /\ AllPresent(shards)
    /\ n <= Len(shards)
    /\ n \in (codec.data_shard_count - 1)..(codec.data_shard_count + 1)
    /\ \/ Buffers(shards) \in Inputs(codec)
       \/ shards = input
       \/ /\ enc # <<>>
          /\ SubSeq(shards, 1, codec.data_shard_count)
                 = SubSeq(enc, 1, codec.data_shard_count)
    /\ LET data == SubSeq(Buffers(shards), 1, n)
           r == encode_sep(codec, data, SubSeq(Buffers(shards), n + 1, Len(shards)))
       IN  /\ shards' = Present(data \o r.parity)
           /\ last' = [op |-> "encode_sep", ret |-> r.ret, decodeCalls |-> 0,
                       encodeCalls |-> r.encodeCalls]
           /\ enc' = IF r.ret = "Ok" THEN Present(data \o r.parity) ELSE enc
    /\ pre' = shards
    /\ UNCHANGED <<newVars, auxVars, codec, input>>

\* rs.verify(&shards) on a list of buffers
Verify ==
    /\ Alive
    /\ AllPresent(shards)
    /\ last' = [op |-> "verify", ret |-> verify(codec, Buffers(shards)),
                decodeCalls |-> 0,
                encodeCalls |-> verify_encode_calls(codec, Buffers(shards))]
    /\ pre' = shards
    /\ UNCHANGED <<newVars, auxVars, codec, shards, enc, input>>

\* rs.reconstruct(&mut shards)
Reconstruct ==
    /\ Alive
    /\ LET r == reconstruct(codec, shards)
       IN  /\ shards' = r.shards
           /\ last' = [op |-> "reconstruct", ret |-> r.ret,
                       decodeCalls |-> r.decodeCalls, encodeCalls |-> r.encodeCalls]
    /\ pre' = shards
    /\ UNCHANGED <<newVars, auxVars, codec, enc, input>>

\* rs.reconstruct_data(&mut shards)
ReconstructData ==
    /\ Alive
    /\ LET r == reconstruct_data(codec, shards)
       IN  /\ shards' = r.shards
           /\ last' = [op |-> "reconstruct_data", ret |-> r.ret,
                       decodeCalls |-> r.decodeCalls, encodeCalls |-> r.encodeCalls]
    /\ pre' = shards
    /\ UNCHANGED <<newVars, auxVars, codec, enc, input>>

\* the caller marks slot i (0-based) as missing, shards[i] = None, in a shard
\* set that is its input or the output of encode with slots missing
Erase(i) ==
    /\ Alive
    /\ i < Len(shards)
    /\ shards[i + 1].some
    /\ AgreesWith(shards, IF enc # <<>> THEN enc ELSE input)
    /\ shards' = [shards EXCEPT ![i + 1] = None]
    /\ last' = NoOp
    /\ pre' = shards'
    /\ UNCHANGED <<newVars, auxVars, codec, enc, input>>

\* the caller changes one byte of one parity shard of the encode output
FlipParityByte(i, p, mask) ==
    /\ Alive
    /\ enc # <<>>
    /\ shards = enc
    /\ i >= codec.data_shard_count
    /\ i < Len(shards)
    /\ p \in 1..Len(shards[i + 1].v)
    /\ shards' = [shards EXCEPT ![i + 1].v[p] = Xor(@, mask)]
    /\ last' = NoOp
    /\ pre' = shards'
    /\ UNCHANGED <<newVars, auxVars, codec, enc, input>>

Next ==
    \/ Encode
    \/ \E n \in 0..(MaxData + 1) : EncodeSep(n)
    \/ Verify
    \/ Reconstruct
    \/ ReconstructData
    \/ \E i \in 0..(MaxData + MaxParity) : Erase(i)
    \/ \E i \in 0..(MaxData + MaxParity) : \E p \in 1..MaxLen : \E mask \in FlipMasks :
          FlipParityByte(i, p, mask)

Spec == Init /\ [][Next]_vars

-----------------------------------------------------------------------------
(* The same operations on shards of every size class: a shard length that  *)
(* fits c_int, one that params narrows to a negative byte count (2^31 on   *)
(* the 64-bit target) and one that it narrows to 1 (2^32 + 1).  The        *)
(* caller's parity buffers hold zeroes, or a fill byte in the long sets.   *)

WideLens   == {1, 2 ^ (CIntBits - 1), 2 ^ CIntBits + 1}
ParityFill == 85

WideInputs(c) ==
    {[i \in 1..c.total_shard_count |->
         [p \in 1..len |-> IF i <= c.data_shard_count THEN (183 * (i + p)) % 256
                           ELSE IF as_c_int(len) = len THEN 0 ELSE ParityFill]] :
        len \in WideLens}

InitWide ==
    /\ once = "complete"
    /\ initRuns = 1
    /\ initFailed = FALSE
    /\ pc = [t \in Threads |-> "idle"]
    /\ arg = [t \in Threads |-> <<0, 0>>]
    /\ ret = [t \in Threads |-> NoRet]
    /\ codec \in Codecs
    /\ shards \in {Present(b) : b \in WideInputs(codec)}
    /\ last = NoOp
    /\ pre = shards
    /\ enc = <<>>
    /\ input = shards
    /\ isal = <<>>
    /\ bench = <<>>
    /\ build = "release"   \* no step of this specification differs between builds

\* the length of the present shards of a uniform set
ShardSize(slots) == Len(slots[CHOOSE i \in 1..Len(slots) : slots[i].some].v)

\* the cm256_encode_block calls the operation op makes on the caller's set
EncodeBlockCalls(op) ==
    CASE op = "encode"      -> IF AllPresent(shards)
                               THEN encode(codec, Buffers(shards)).encodeCalls ELSE 0
      [] op = "verify"      -> IF AllPresent(shards)
                               THEN verify_encode_calls(codec, Buffers(shards)) ELSE 0
      [] op = "reconstruct" -> reconstruct(codec, shards).encodeCalls

\* cm256_encode_block is handed a byte count that is not positive: the
\* routine does not validate it, and the call may end the process instead of
\* returning
EncodeBlockFault(op) ==
    /\ Alive
    /\ \E i \in 1..Len(shards) : shards[i].some
    /\ as_c_int(ShardSize(shards)) <= 0
    /\ EncodeBlockCalls(op) > 0
    /\ last' = [op |-> op, ret |-> "crash", decodeCalls |-> 0, encodeCalls |-> 1]
    /\ pre' = shards
    /\ UNCHANGED <<newVars, auxVars, codec, shards, enc, input>>

NextWide ==
    \/ Encode
    \/ Verify
    \/ Reconstruct
    \/ ReconstructData
    \/ \E i \in 0..(MaxData + MaxParity) : Erase(i)
    \/ \E op \in {"encode", "verify", "reconstruct"} : EncodeBlockFault(op)

SpecWide == InitWide /\ [][NextWide]_vars

-----------------------------------------------------------------------------
(* SpecValidate: reconstruct and reconstruct_data applied to arbitrary     *)
(* slot lists: any slot missing or present, present buffers of any of a    *)
(* few lengths (zero included), lists one slot short or long, and codecs   *)
(* of up to MaxData + 1 data shards so that two present slots can still be *)
(* fewer than data_shard_count.                                            *)

SlotLens == {0, 1, 2}

ValidateCodecs == {new_codec(d, p) : d \in 1..(MaxData + 1), p \in 1..MaxParity}

\* slot i of a list: missing (-1), or a buffer of the given length
SlotOf(i, l) == IF l = -1 THEN None ELSE Some([p \in 1..l |-> (37 * i + p) % 256])

\* every list of total_shard_count slots, the same without its last slot,
\* and the same with one more present slot
SlotLists(c) ==
    LET n == c.total_shard_count
        exact == {[i \in 1..n |-> SlotOf(i, ls[i])] : ls \in [1..n -> {-1} \cup SlotLens]}
    IN  exact \cup {SubSeq(l, 1, n - 1) : l \in exact}
              \cup {Append(l, SlotOf(n + 1, 1)) : l \in exact}

InitValidate ==
    /\ once = "complete"
    /\ initRuns = 1
    /\ initFailed = FALSE
    /\ pc = [t \in Threads |-> "idle"]
    /\ arg = [t \in Threads |-> <<0, 0>>]
    /\ ret = [t \in Threads |-> NoRet]
    /\ codec \in ValidateCodecs
    /\ shards \in SlotLists(codec)
    /\ last = NoOp
    /\ pre = shards
    /\ enc = <<>>
    /\ input = shards
    /\ isal = <<>>
    /\ bench = <<>>
    /\ build = "release"   \* no step of this specification differs between builds

NextValidate ==
    \/ Reconstruct
    \/ ReconstructData

SpecValidate == InitValidate /\ [][NextValidate]_vars

-----------------------------------------------------------------------------
(* SpecIsaL: one call of try_code_some_slices (src/src/isa_l.rs).          *)
(*                                                                         *)
(* The call is followed from its entry to its outcome.  The field          *)
(* arithmetic engine (ec_init_tables_gfni, ec_encode_data_*_gfni) is an    *)
(* external primitive: the model records that it was called, the c_int     *)
(* arguments it was handed, the size of the table it was handed and the    *)
(* size it fills (32 bytes for each of its k * rows coefficients), and     *)
(* that the outputs were written.  Every allocation may fail: a Vec that   *)
(* cannot be allocated aborts the process, a Vec larger than isize::MAX    *)
(* panics ("capacity overflow"), the table that cannot be allocated makes  *)
(* the call return false.  The caller keeps the contract the code only     *)
(* asserts: aligned buffers, one matrix row of at least k coefficients per *)
(* output, buffers of one length.                                          *)

ISA_L_TABLE_BYTES_PER_COEFF == 32
ISA_L_ALIGN_BYTES == 32

\* usize::checked_mul: a product that does not fit is None
checked_mul(a, b) == IF a * b < UsizeRange THEN Some(a * b) ELSE None

\* Layout::from_size_align(len, align).ok(): the size rounded up to the
\* alignment has to fit isize
LayoutOk(len, align) == len <= IsizeMax - (align - 1)

\* AlignedBuf::new(len, align): Some(len) when the layout is valid and the
\* allocator returned a block, else None
AlignedBuf_new(len, align, alloc_ok) ==
    IF LayoutOk(len, align) /\ alloc_ok THEN Some(len) ELSE None

\* the debug_assert!s before the pointer vectors are built
DebugAssertsHold(k, rows, len) ==
    /\ len <= CIntMax
    /\ k <= CIntMax
    /\ rows <= CIntMax
    /\ checked_mul(len, k).some
    /\ checked_mul(len, k).some => checked_mul(checked_mul(len, k).v, rows).some

\* the debug_assert!s on the sizes of the coefficient buffer and the table
SizeAssertsHold(k, rows) ==
    /\ checked_mul(k, rows).some
    /\ checked_mul(k, rows).some
          => checked_mul(checked_mul(k, rows).v, ISA_L_TABLE_BYTES_PER_COEFF).some

\* Vec::with_capacity(n) or growth to n elements of elem bytes: "panic" when
\* the bytes exceed isize::MAX, "abort" when the allocator fails, else "ok"
VecAlloc(n, elem, alloc_ok) ==
    IF n * elem > IsizeMax THEN "panic"
    ELSE IF n * elem > 0 /\ ~alloc_ok THEN "abort"
    ELSE "ok"

\* the coefficient vector, of capacity cap, taking rows rows of k bytes: it
\* grows when a row does not fit, asking for the larger of twice its
\* capacity and what the row needs (at least 8)
RECURSIVE GrowCoeffs(_, _, _, _)
GrowCoeffs(cap, k, rows, grow_ok) ==
    IF k * rows <= cap THEN "ok"
    ELSE LET required == (cap \div k) * k + k
             twice    == IF 2 * cap > required THEN 2 * cap ELSE required
             request  == IF twice > 8 THEN twice ELSE 8
         IN  IF request > IsizeMax THEN "panic"
             ELSE IF ~grow_ok THEN "abort"
             ELSE GrowCoeffs(request, k, rows, grow_ok)

\* the first of two allocations that does not succeed
FirstFailure(a, b) == IF a # "ok" THEN a ELSE b

\* the bytes ec_init_tables_gfni writes into the table it is handed, for the
\* c_int counts it receives
TableBytes(k, rows) ==
    IF k > 0 /\ rows > 0 THEN k * rows * ISA_L_TABLE_BYTES_PER_COEFF ELSE 0

\* the calls the caller makes, as <<k, rows>>: small ones, counts at the
\* limit of c_int and past it, tables at the limit of usize and past it
SmallCounts  == {<<0, 1>>, <<1, 0>>, <<1, 1>>, <<2, 1>>, <<2, 2>>, <<2, 4>>}
CIntCounts   == {<<CIntMax, 4>>, <<CIntMax, 8>>, <<2 ^ CIntBits + 1, 1>>,
                 <<2 ^ (UsizeBits - 2), 1>>}
TableCounts  == {<<2 ^ (CIntBits - 2), 2 ^ (UsizeBits - CIntBits - 3)>>,
                 <<2 ^ (CIntBits - 2) + 1, 2 ^ (UsizeBits - CIntBits - 3)>>,
                 <<3 * 2 ^ (CIntBits - 3), 2 ^ (UsizeBits - CIntBits - 3)>>,
                 <<2 ^ CIntBits, 2 ^ (UsizeBits - CIntBits)>>}
ShardLens    == {0, 1, 2}

IsaLCall(k, rows, len) ==
    [pc |-> "entry", k |-> k, rows |-> rows, len |-> len,
     coeffs_len |-> 0, gftbls_len |-> 0, table |-> None,
     ret |-> "none", engineCalls |-> 0, engineArgs |-> <<>>,
     outputsWritten |-> FALSE]

IsaLCalls ==
    {IsaLCall(c[1], c[2], len) :
        c \in SmallCounts \cup CIntCounts \cup TableCounts, len \in ShardLens}
    \cup {IsaLCall(CIntMax, 4, CIntMax)}

InitIsaL ==
    /\ once = "incomplete"
    /\ initRuns = 0
    /\ initFailed = FALSE
    /\ pc = [t \in Threads |-> "idle"]
    /\ arg = [t \in Threads |-> <<0, 0>>]
    /\ ret = [t \in Threads |-> NoRet]
    /\ codec = NoCodec
    /\ shards = <<>>
    /\ last = NoOp
    /\ pre = <<>>
    /\ enc = <<>>
    /\ input = <<>>
    /\ isal \in IsaLCalls
    /\ bench = <<>>
    /\ build \in Builds

isalFrame == <<once, initRuns, initFailed, pc, arg, ret, codecVars, bench, build>>

\* k == 0 || rows == 0, or a zero shard length: nothing to do
IsaLTrivial ==
    /\ isal.pc = "entry"
    /\ (isal.k = 0 \/ isal.rows = 0 \/ isal.len = 0)
    /\ isal' = [isal EXCEPT !.pc = "done", !.ret = "true"]
    /\ UNCHANGED isalFrame

\* a debug build stops at the first debug_assert! on the arguments that fails
IsaLDebugAssert ==
    /\ isal.pc = "entry"
    /\ isal.k > 0 /\ isal.rows > 0 /\ isal.len > 0
    /\ build = "debug"
    /\ ~DebugAssertsHold(isal.k, isal.rows, isal.len)
    /\ isal' = [isal EXCEPT !.pc = "done", !.ret = "panic"]
    /\ UNCHANGED isalFrame

\* data_ptrs and coding_ptrs: Vec::with_capacity(k), Vec::with_capacity(rows)
\* of pointers, filled from the inputs and the outputs
IsaLPointers(data_ok, coding_ok) ==
    /\ isal.pc = "entry"
    /\ isal.k > 0 /\ isal.rows > 0 /\ isal.len > 0
    /\ build = "debug" => DebugAssertsHold(isal.k, isal.rows, isal.len)
    /\ LET r == FirstFailure(VecAlloc(isal.k, PtrBytes, data_ok),
                             VecAlloc(isal.rows, PtrBytes, coding_ok))
       IN  isal' = IF r = "ok" THEN [isal EXCEPT !.pc = "sizes"]
                   ELSE [isal EXCEPT !.pc = "done", !.ret = r]
    /\ UNCHANGED isalFrame

\* a debug build stops when k * rows or coeffs_len * 32 does not fit usize
IsaLSizeAssert ==
    /\ isal.pc = "sizes"
    /\ build = "debug"
    /\ ~SizeAssertsHold(isal.k, isal.rows)
    /\ isal' = [isal EXCEPT !.pc = "done", !.ret = "panic"]
    /\ UNCHANGED isalFrame

\* coeffs_len and gftbls_len are computed, wrapping where the build does not
\* check; the coefficient vector is allocated with capacity coeffs_len and
\* grows, row by row, to the k * rows bytes pushed into it
IsaLSizes(cap_ok, grow_ok) ==
    /\ isal.pc = "sizes"
    /\ build = "debug" => SizeAssertsHold(isal.k, isal.rows)
    /\ LET coeffs_len == wrapping_mul(isal.k, isal.rows)
           gftbls_len == wrapping_mul(coeffs_len, ISA_L_TABLE_BYTES_PER_COEFF)
           r == FirstFailure(VecAlloc(coeffs_len, 1, cap_ok),
                             GrowCoeffs(coeffs_len, isal.k, isal.rows, grow_ok))
       IN  isal' = [isal EXCEPT !.pc = IF r = "ok" THEN "alloc" ELSE "done",
                                !.ret = IF r = "ok" THEN @ ELSE r,
                                !.coeffs_len = coeffs_len,
                                !.gftbls_len = gftbls_len]
    /\ UNCHANGED isalFrame

\* AlignedBuf::new(gftbls_len, ISA_L_ALIGN_BYTES): None returns false.  The
\* allocator may fail on any request; a request of size zero is outside
\* its contract and may return either.
IsaLAlloc(alloc_ok) ==
    /\ isal.pc = "alloc"
    /\ LET gftbls == AlignedBuf_new(isal.gftbls_len, ISA_L_ALIGN_BYTES, alloc_ok)
       IN  IF gftbls.some
           THEN isal' = [isal EXCEPT !.pc = "engine", !.table = gftbls]
           ELSE isal' = [isal EXCEPT !.pc = "done", !.ret = "false"]
    /\ UNCHANGED isalFrame

\* ec_init_tables_gfni fills the table and ec_encode_data_*_gfni writes the
\* outputs, both with the counts narrowed to c_int; the call returns true.
\* When the table is smaller than what the engine fills, the writes run
\* past it and the process may also crash.
IsaLEngine(outcome) ==
    /\ isal.pc = "engine"
    /\ LET args == [len  |-> as_c_int(isal.len), k |-> as_c_int(isal.k),
                    rows |-> as_c_int(isal.rows)]
       IN  /\ outcome = "crash" => isal.table.v < TableBytes(args.k, args.rows)
           /\ isal' = [isal EXCEPT !.pc = "done", !.ret = outcome,
                                   !.engineCalls = @ + 1, !.engineArgs = args,
                                   !.outputsWritten = TRUE]
    /\ UNCHANGED isalFrame

NextIsaL ==
    \/ IsaLTrivial
    \/ IsaLDebugAssert
    \/ \E data_ok, coding_ok \in BOOLEAN : IsaLPointers(data_ok, coding_ok)
    \/ IsaLSizeAssert
    \/ \E cap_ok, grow_ok \in BOOLEAN : IsaLSizes(cap_ok, grow_ok)
    \/ \E alloc_ok \in BOOLEAN : IsaLAlloc(alloc_ok)
    \/ \E outcome \in {"true", "crash"} : IsaLEngine(outcome)

SpecIsaL == InitIsaL /\ [][NextIsaL]_vars

-----------------------------------------------------------------------------
(* SpecBench: one run of the calibration harness's parent process          *)
(* (src/benches/min_shards.rs, run_parent).                                *)
(*                                                                         *)
(* RSE_MIN_SHARDS_VALUES is unset or a comma-separated list of parts; a    *)
(* part is modelled by the number it spells (which may be too large for    *)
(* usize), or by -1 when it spells none.                                   *)
(* A child prints one line "min_shards=V mbps=X.XX"; a measurement is the  *)
(* printed number in hundredths of a MB/s.                                 *)

MaxParts == 2
MaxMbps == 2

DEFAULT_VALUES == <<2, 4, 6, 8, 10, 12, 16, 20, 24, 32>>

\* part.trim().parse::<usize>(): a number above usize::MAX does not parse
parse_usize(part) == IF part >= 0 /\ part <= UsizeMax THEN Some(part) ELSE None

\* the parts that parse, in order
RECURSIVE ParsedParts(_)
ParsedParts(parts) ==
    IF parts = <<>> THEN <<>>
    ELSE LET v == parse_usize(Head(parts))
         IN  (IF v.some THEN <<v.v>> ELSE <<>>) \o ParsedParts(Tail(parts))

\* parse_values(): the parsed list when the variable is set and some part
\* parses, else the default list
parse_values(env) ==
    IF env.some /\ ParsedParts(env.v) # <<>>
    THEN ParsedParts(env.v)
    ELSE DEFAULT_VALUES

\* the inner loop's update for one parsed "mbps=" line
UpdateBest(best, value, mbps) ==
    IF mbps > best.mbps THEN [value |-> value, mbps |-> mbps] ELSE best

\* the settings of RSE_MIN_SHARDS_VALUES and the throughputs a child prints
PartValues == {-1, 2, 4, UsizeMax + 1}
EnvLists   == UNION {[1..n -> PartValues] : n \in 0..MaxParts}
EnvValues  == {None} \cup {Some(l) : l \in EnvLists}
Measurements == 0..MaxMbps

BenchRun(feature, env) ==
    [pc |-> "start", feature |-> feature, env |-> env, values |-> <<>>,
     ran |-> <<>>, measured |-> <<>>,
     best |-> [value |-> 0, mbps |-> 0], reported |-> <<>>]

InitBench ==
    /\ once = "incomplete"
    /\ initRuns = 0
    /\ initFailed = FALSE
    /\ pc = [t \in Threads |-> "idle"]
    /\ arg = [t \in Threads |-> <<0, 0>>]
    /\ ret = [t \in Threads |-> NoRet]
    /\ codec = NoCodec
    /\ shards = <<>>
    /\ last = NoOp
    /\ pre = <<>>
    /\ enc = <<>>
    /\ input = <<>>
    /\ isal = <<>>
    /\ bench \in {BenchRun(feature, env) : feature \in BOOLEAN, env \in EnvValues}
    /\ build = "release"   \* no step of this specification differs between builds

benchFrame == <<once, initRuns, initFailed, pc, arg, ret, codecVars, isal, build>>

\* a build without the isa-l feature prints a notice and returns
BenchNoFeature ==
    /\ bench.pc = "start"
    /\ ~bench.feature
    /\ bench' = [bench EXCEPT !.pc = "done"]
    /\ UNCHANGED benchFrame

\* best_value = 0, best_mbps = 0.0, values = parse_values()
BenchStart ==
    /\ bench.pc = "start"
    /\ bench.feature
    /\ bench' = [bench EXCEPT !.pc = "sweep",
                              !.values = parse_values(bench.env),
                              !.best = [value |-> 0, mbps |-> 0]]
    /\ UNCHANGED benchFrame

\* one iteration of `for value in values`: the child for the next candidate
\* runs and prints mbps, the parent compares it with the best so far
BenchChild(mbps) ==
    /\ bench.pc = "sweep"
    /\ Len(bench.ran) < Len(bench.values)
    /\ LET value == bench.values[Len(bench.ran) + 1]
       IN  bench' = [bench EXCEPT !.ran = Append(@, value),
                                  !.measured = Append(@, mbps),
                                  !.best = UpdateBest(@, value, mbps)]
    /\ UNCHANGED benchFrame

\* after the loop: eprintln!("best min_shards={} (mbps={:.2})", ..)
BenchReport ==
    /\ bench.pc = "sweep"
    /\ Len(bench.ran) = Len(bench.values)
    /\ bench' = [bench EXCEPT !.pc = "done", !.reported = <<bench.best>>]
    /\ UNCHANGED benchFrame

NextBench ==
    \/ BenchNoFeature
    \/ BenchStart
    \/ \E mbps \in Measurements : BenchChild(mbps)
    \/ BenchReport

SpecBench == InitBench /\ [][NextBench]_vars

-----------------------------------------------------------------------------
(* Properties.                                                             *)

IsReconstruct == last.op \in {"reconstruct", "reconstruct_data"}

NumMissing(slots) == Len(slots) - NumPresent(slots)

\* total_shard_count slots whose present ones share one non-zero length
UniformSlots(slots) ==
    /\ Len(slots) = codec.total_shard_count
    /\ \A i, j \in 1..Len(slots) :
          slots[i].some /\ slots[j].some
             => Len(slots[i].v) > 0 /\ Len(slots[i].v) = Len(slots[j].v)

DataIdx   == 1..codec.data_shard_count
ParityIdx == (codec.data_shard_count + 1)..codec.total_shard_count

\* the last operation was passed the output of encode with some slots missing
PreFromEnc == enc # <<>> /\ AgreesWith(pre, enc)

\* C1: reconstruct, called on the output of a successful encode with any
\* subset of at most parity_shard_count slots marked missing, returns Ok and
\* leaves every slot present and equal to the shard encode left at that index.
C1_RoundTrip ==
    (last.op = "reconstruct" /\ PreFromEnc
        /\ NumMissing(pre) <= codec.parity_shard_count)
    => (last.ret = "Ok" /\ shards = enc)

\* what the code does with shards too long for c_int: reconstruct returned Ok
\* for a codeword of shards whose length params narrows to 1, and the data
\* slot it refilled does not hold the data that was encoded
C1_Witness ==
    /\ last.op = "reconstruct" /\ PreFromEnc
    /\ NumMissing(pre) <= codec.parity_shard_count
    /\ Len(enc[1].v) > CIntMax /\ as_c_int(Len(enc[1].v)) = 1
    /\ last.ret = "Ok"
    /\ AllPresent(shards)
    /\ \E i \in DataIdx : ~pre[i].some /\ shards[i] # enc[i]

\* C2: a finished call new(d, p) has failed with TooFewDataShards when d = 0,
\* with TooFewParityShards when d >= 1 and p = 0, with TooManyShards when both
\* are >= 1 and d + p > 256, and otherwise has returned a codec whose three
\* counts are d, p and d + p (or panicked, when the native initialisation
\* failed).
C2_NewValidation ==
    \A t \in Threads :
        (pc[t] = "idle" /\ ret[t].kind # "none") =>
            LET d == arg[t][1]
                p == arg[t][2]
            IN  IF d = 0 THEN ret[t] = Err("TooFewDataShards")
                ELSE IF p = 0 THEN ret[t] = Err("TooFewParityShards")
                ELSE IF d + p > 256 THEN ret[t] = Err("TooManyShards")
                ELSE \/ /\ ret[t].kind = "Ok"
                        /\ ret[t].codec.data_shard_count = d
                        /\ ret[t].codec.parity_shard_count = p
                        /\ ret[t].codec.total_shard_count = d + p
                     \/ ret[t].kind = "panic" /\ initFailed

\* what the code does: the claim's outcomes whenever d + p fits usize; when
\* it does not, a debug build panics and a release build decides on the
\* wrapped sum, returning a codec whose total is the wrapped sum when that
\* is at most 256
C2_Observed ==
    \A t \in Threads :
        (pc[t] = "idle" /\ ret[t].kind # "none") =>
            LET d == arg[t][1]
                p == arg[t][2]
                sum == IF d + p > UsizeMax THEN d + p - UsizeRange ELSE d + p
            IN  IF d = 0 THEN ret[t] = Err("TooFewDataShards")
                ELSE IF p = 0 THEN ret[t] = Err("TooFewParityShards")
                ELSE IF d + p > UsizeMax /\ build = "debug" THEN ret[t] = Panic
                ELSE IF sum > 256 THEN ret[t] = Err("TooManyShards")
                ELSE \/ /\ ret[t].kind = "Ok"
                        /\ ret[t].codec.data_shard_count = d
                        /\ ret[t].codec.parity_shard_count = p
                        /\ ret[t].codec.total_shard_count = sum
                     \/ ret[t].kind = "panic" /\ initFailed

\* a release build returned a codec with total_shard_count 0 for
\* new(usize::MAX, 1)
C2_Witness ==
    \E t \in Threads :
        /\ build = "release"
        /\ pc[t] = "idle"
        /\ arg[t] = <<UsizeMax, 1>>
        /\ ret[t].kind = "Ok"
        /\ ret[t].codec.data_shard_count = UsizeMax
        /\ ret[t].codec.total_shard_count = 0

\* the lengths of the buffers of a list
Lens(slots) == [i \in 1..Len(slots) |-> Len(slots[i].v)]

\* C3 as stated: encode fails with TooFewShards on a shorter list and with
\* TooManyShards on a longer one; on total_shard_count shards it fails with
\* EmptyShard when the shards have length zero and with IncorrectShardSize
\* when their lengths differ; no error outcome modifies a shard.
C3_AsStated ==
    last.op = "encode" =>
        /\ Len(pre) < codec.total_shard_count => last.ret = "TooFewShards"
        /\ Len(pre) > codec.total_shard_count => last.ret = "TooManyShards"
        /\ (Len(pre) = codec.total_shard_count
              /\ \A i \in 1..Len(pre) : Lens(pre)[i] = 0) => last.ret = "EmptyShard"
        /\ (Len(pre) = codec.total_shard_count
              /\ \E i, j \in 1..Len(pre) : Lens(pre)[i] # Lens(pre)[j])
                 => last.ret = "IncorrectShardSize"
        /\ last.ret # "Ok" => shards = pre

\* C3 (amended): encode fails with TooFewShards on a shorter list and with
\* TooManyShards on a longer one; on total_shard_count shards it fails with
\* EmptyShard when the first shard has length zero, and with
\* IncorrectShardSize when the first shard is not empty and some shard's
\* length differs from the first's; no error outcome modifies a shard.
C3_EncodeValidation ==
    last.op = "encode" =>
        /\ Len(pre) < codec.total_shard_count => last.ret = "TooFewShards"
        /\ Len(pre) > codec.total_shard_count => last.ret = "TooManyShards"
        /\ (Len(pre) = codec.total_shard_count /\ Lens(pre)[1] = 0)
              => last.ret = "EmptyShard"
        /\ (Len(pre) = codec.total_shard_count /\ Lens(pre)[1] # 0
              /\ \E i \in 1..Len(pre) : Lens(pre)[i] # Lens(pre)[1])
                 => last.ret = "IncorrectShardSize"
        /\ last.ret # "Ok" => shards = pre

\* encode refused a list whose first shard is non-empty and in which a later
\* shard is empty
C3_Witness ==
    /\ last.op = "encode"
    /\ Len(pre) = codec.total_shard_count
    /\ Lens(pre)[1] # 0
    /\ \E i \in 2..Len(pre) : Lens(pre)[i] = 0
    /\ last.ret = "IncorrectShardSize"
    /\ shards = pre

\* slots differs from ref in exactly one byte, of one parity shard
OneParityByteChanged(slots, ref) ==
    /\ Lens(slots) = Lens(ref)
    /\ AllPresent(slots)
    /\ \E i \in ParityIdx : \E p \in 1..Len(ref[i].v) :
          /\ slots[i].v[p] # ref[i].v[p]
          /\ \A j \in 1..Len(ref) : \A q \in 1..Len(ref[j].v) :
                (j # i \/ q # p) => slots[j].v[q] = ref[j].v[q]

\* C4: verify on the unmodified output of a successful encode returns
\* Ok(true); on that output with any single byte of any one parity shard
\* changed it returns Ok(false); verify modifies no shard.
C4_Verify ==
    last.op = "verify" =>
        /\ (enc # <<>> /\ pre = enc) => last.ret = "Ok(true)"
        /\ (enc # <<>> /\ OneParityByteChanged(pre, enc)) => last.ret = "Ok(false)"
        /\ shards = pre

\* what the code does with shards too long for c_int: verify answered false
\* for the unmodified output of a successful encode, whose parity buffers
\* were written only up to the narrowed length
C4_Witness ==
    /\ last.op = "verify"
    /\ enc # <<>>
    /\ pre = enc
    /\ Len(enc[1].v) > CIntMax /\ as_c_int(Len(enc[1].v)) = 1
    /\ last.ret = "Ok(false)"
    /\ shards = pre

\* C5: after a successful reconstruct or reconstruct_data every slot that was
\* present before the call holds the same bytes: only missing slots are
\* written, and a parity shard used as substitute is still present, unchanged.
C5_PresentUntouched ==
    (IsReconstruct /\ last.ret = "Ok") =>
        /\ Len(shards) = Len(pre)
        /\ \A i \in 1..Len(pre) : pre[i].some => shards[i] = pre[i]

\* reconstruct recovered a missing data shard from a present parity shard
\* that does not match the data (the set was never encoded) and left it alone
C5_Witness ==
    /\ last.op = "reconstruct" /\ last.ret = "Ok"
    /\ enc = <<>>
    /\ last.decodeCalls = 1
    /\ \E i \in DataIdx : ~pre[i].some /\ shards[i].some
    /\ \E i \in ParityIdx : pre[i].some /\ shards[i] = pre[i]
    /\ verify(codec, Buffers(shards)) = "Ok(false)"

\* C6: reconstruct and reconstruct_data on total_shard_count slots, all present
\* with one non-zero length, return Ok, alter no buffer and call neither the
\* decode nor the encode primitive.
C6_NoOp ==
    (IsReconstruct /\ UniformSlots(pre) /\ AllPresent(pre)) =>
        /\ last.ret = "Ok"
        /\ shards = pre
        /\ last.decodeCalls = 0
        /\ last.encodeCalls = 0

\* reconstruct was called on a complete set whose parity does not match its
\* data and left it as it was
C6_Witness ==
    /\ last.op = "reconstruct"
    /\ UniformSlots(pre) /\ AllPresent(pre)
    /\ verify(codec, Buffers(pre)) = "Ok(false)"
    /\ last.ret = "Ok" /\ shards = pre

\* C7: reconstruct_data on a uniform shard set with at least data_shard_count
\* slots present returns Ok; every data slot is then present, with the
\* original data when the set came from encode, and every parity slot that was
\* missing is still missing.
C7_DataOnly ==
    (last.op = "reconstruct_data" /\ UniformSlots(pre)
        /\ NumPresent(pre) >= codec.data_shard_count) =>
        /\ last.ret = "Ok"
        /\ \A i \in DataIdx : shards[i].some
        /\ PreFromEnc => \A i \in DataIdx : shards[i] = enc[i]
        /\ \A i \in ParityIdx : ~pre[i].some => ~shards[i].some

\* what the code does with shards too long for c_int: reconstruct_data
\* returned Ok for a codeword with a data shard missing and enough slots
\* present, and the slot it refilled does not hold the original data
C7_Witness ==
    /\ last.op = "reconstruct_data" /\ PreFromEnc
    /\ UniformSlots(pre)
    /\ NumPresent(pre) >= codec.data_shard_count
    /\ Len(enc[1].v) > CIntMax /\ as_c_int(Len(enc[1].v)) = 1
    /\ last.ret = "Ok"
    /\ \E i \in DataIdx : ~pre[i].some /\ shards[i].some /\ shards[i] # enc[i]

\* C8: reconstruct and reconstruct_data on a uniform shard set with fewer than
\* data_shard_count slots present fail with TooFewShardsPresent, and whenever
\* they fail with TooFewShardsPresent, be it from the count of present slots
\* or from a failing cm256_decode, the shard set is as it was before the call.
C8_TooFewPresent ==
    IsReconstruct =>
        /\ (UniformSlots(pre) /\ NumPresent(pre) < codec.data_shard_count)
              => last.ret = "TooFewShardsPresent"
        /\ last.ret = "TooFewShardsPresent" => shards = pre

\* the decode primitive failed: enough slots were present, a data shard was
\* missing and its substitute was handed to cm256_decode, which refused the
\* byte count; reconstruct returned TooFewShardsPresent and the set, with the
\* parity shard that served as substitute, is as before the call
C8_Witness ==
    /\ last.op = "reconstruct"
    /\ UniformSlots(pre)
    /\ codec.data_shard_count = 2
    /\ NumPresent(pre) >= codec.data_shard_count
    /\ \E i \in DataIdx : ~pre[i].some
    /\ last.decodeCalls = 1
    /\ last.ret = "TooFewShardsPresent"
    /\ shards = pre

\* C9: the native cm256 initialisation runs at most once, and a thread is
\* past ensure_init or holds a codec only when that one run has completed.
C9_InitOnce ==
    /\ initRuns <= 1
    /\ \A t \in Threads :
          (pc[t] = "build" \/ ret[t].kind = "Ok")
             => (initRuns = 1 /\ once = "complete")

\* two threads hold a codec after one initialisation
C9_Witness ==
    /\ initRuns = 1
    /\ \E t, u \in Threads : t # u /\ ret[t].kind = "Ok" /\ ret[u].kind = "Ok"

\* C10: once the native cm256 initialisation has failed, no call to new, on
\* any thread and with any arguments, returns a codec, and the failure stays.
C10_InitFailurePermanent ==
    /\ [](initFailed => \A t \in Threads : pc[t] # "build" /\ ret[t].kind # "Ok")
    /\ [][initFailed => initFailed']_vars

\* after a failed initialisation one thread panicked in new and another,
\* calling new later with valid arguments, panicked too
C10_Witness ==
    /\ initFailed
    /\ initRuns = 1
    /\ \E t, u \in Threads :
          /\ t # u
          /\ ret[t] = Panic /\ pc[t] = "idle"
          /\ ret[u] = Panic /\ pc[u] = "idle" /\ arg[u] # arg[t]

\* the call's table size k * rows * 32 does not fit usize
TableSizeOverflows ==
    /\ isal.k > 0 /\ isal.rows > 0 /\ isal.len > 0
    /\ isal.k * isal.rows * ISA_L_TABLE_BYTES_PER_COEFF >= UsizeRange

\* C11: a call of try_code_some_slices with k > 0 inputs, rows > 0 outputs
\* and a non-zero shard length whose table size k * rows * 32 overflows usize
\* returns false without calling the field arithmetic engine and without
\* writing an output, and no table of the wrapped-around size is allocated.
C11_OverflowReturnsFalse ==
    TableSizeOverflows =>
        /\ ~isal.table.some
        /\ isal.engineCalls = 0
        /\ ~isal.outputsWritten
        /\ isal.pc = "done" => isal.ret = "false"

\* what the code does instead: a debug build panics, or aborts when a
\* vector cannot be allocated; a release build returns false only when the
\* wrapped-around size is refused by the allocator, and otherwise hands the
\* engine a table of the wrapped size
C11_Observed ==
    (TableSizeOverflows /\ isal.pc = "done") =>
        /\ build = "debug" => isal.ret \in {"panic", "abort"}
        /\ isal.ret = "false" => isal.engineCalls = 0 /\ ~isal.outputsWritten
        /\ isal.engineCalls > 0 =>
              /\ build = "release"
              /\ isal.table.v = (isal.k * isal.rows * ISA_L_TABLE_BYTES_PER_COEFF)
                                   % UsizeRange

\* a release build called the engine with a table of the wrapped-around
\* size, smaller than what the engine fills
C11_Witness ==
    /\ TableSizeOverflows
    /\ isal.pc = "done"
    /\ build = "release"
    /\ isal.ret = "true"
    /\ isal.engineCalls = 1
    /\ isal.outputsWritten
    /\ isal.engineArgs.k = isal.k /\ isal.engineArgs.rows = isal.rows
    /\ isal.table.v > 0
    /\ isal.table.v < TableBytes(isal.k, isal.rows)

\* the largest measurement of a non-empty sweep
MaxMeasured(ms) == CHOOSE m \in {ms[j] : j \in 1..Len(ms)} :
                       \A j \in 1..Len(ms) : ms[j] <= m

\* the first position at which the sweep measured its largest throughput
FirstBest(ms) == CHOOSE j \in 1..Len(ms) :
                     /\ ms[j] = MaxMeasured(ms)
                     /\ \A h \in 1..(j - 1) : ms[h] < MaxMeasured(ms)

\* run_parent has completed a sweep
SweepDone == bench.pc = "done" /\ bench.feature

\* C12: for every candidate list and every sequence of measurements,
\* run_parent runs one child per candidate in list order and reports exactly
\* one best candidate: a member of the list whose measured throughput is the
\* largest of the sweep, and among equally fast candidates the first seen.
C12_BestOfSweep ==
    SweepDone =>
        /\ bench.ran = parse_values(bench.env)
        /\ Len(bench.measured) = Len(bench.ran)
        /\ Len(bench.reported) = 1
        /\ \E j \in 1..Len(bench.ran) : bench.reported[1].value = bench.ran[j]
        /\ bench.reported[1].value = bench.ran[FirstBest(bench.measured)]
        /\ bench.reported[1].mbps = MaxMeasured(bench.measured)

\* what the code does: the report is the first fastest candidate when some
\* child measured more than 0.00, and otherwise the initial best_value 0
\* with 0.00, whatever the candidates are
C12_Observed ==
    SweepDone =>
        /\ bench.ran = parse_values(bench.env)
        /\ Len(bench.measured) = Len(bench.ran)
        /\ Len(bench.reported) = 1
        /\ bench.reported[1].mbps = MaxMeasured(bench.measured)
        /\ IF MaxMeasured(bench.measured) > 0
           THEN bench.reported[1].value = bench.ran[FirstBest(bench.measured)]
           ELSE bench.reported[1].value = 0

\* a sweep over the candidates 2 and 4 whose children both measured 0.00
\* reported the best candidate 0
C12_Witness ==
    /\ SweepDone
    /\ bench.ran = <<2, 4>>
    /\ bench.measured = <<0, 0>>
    /\ bench.reported = <<[value |-> 0, mbps |-> 0]>>

\* the block list reconstruct_internal builds from the slots of the call
PairingOf(slots) ==
    BuildDecodeBlocks(codec, slots, 0, codec.data_shard_count, <<>>, <<>>)

\* the call reached the pairing loop: total_shard_count slots of one
\* non-zero length, at least data_shard_count present, a data slot missing
PairingReached ==
    /\ IsReconstruct
    /\ UniformSlots(pre)
    /\ NumPresent(pre) >= codec.data_shard_count
    /\ \E i \in DataIdx : ~pre[i].some

\* C13: when reconstruct is given total_shard_count slots with at least
\* data_shard_count present and a data slot missing, the pairing loop finds
\* a present parity slot for every missing data index and never panics; it
\* takes parity slots in ascending index order, each at most once, and
\* hands cm256_decode exactly data_shard_count blocks whose indices are
\* pairwise distinct and below total_shard_count, with index i for every
\* present data shard i.
C13_SubstitutePairing ==
    /\ IsReconstruct => last.ret # "panic"
    /\ PairingReached =>
          LET built == PairingOf(pre)
              blocks == built.blocks
              k == codec.data_shard_count
          IN  /\ ~built.panic
              /\ last.decodeCalls = 1
              /\ Len(blocks) = k
              /\ \A p, q \in 1..Len(blocks) :
                    p # q => blocks[p].index # blocks[q].index
              /\ \A p \in 1..Len(blocks) :
                    /\ blocks[p].index < codec.total_shard_count
                    /\ pre[blocks[p].index + 1].some
                    /\ blocks[p].block = pre[blocks[p].index + 1].v
              /\ \A i \in DataIdx : pre[i].some => blocks[i].index = i - 1
              /\ \A i \in DataIdx : ~pre[i].some => blocks[i].index >= k
              /\ \A i, j \in DataIdx :
                    (~pre[i].some /\ ~pre[j].some /\ i < j)
                       => blocks[i].index < blocks[j].index
              /\ Len(built.entries) = Cardinality({i \in DataIdx : ~pre[i].some})

\* reconstruct paired two missing data shards with the two parity shards
\* and refilled them
C13_Witness ==
    /\ last.op = "reconstruct"
    /\ PairingReached
    /\ PreFromEnc
    /\ codec.data_shard_count = 2
    /\ \A i \in DataIdx : ~pre[i].some
    /\ PairingOf(pre).blocks[1].index = 2
    /\ PairingOf(pre).blocks[2].index = 3
    /\ last.ret = "Ok"
    /\ \A i \in DataIdx : shards[i] = enc[i]

\* the present slots whose length the scan refuses: zero, or different from
\* the length of a present slot before it
BadLengths(slots) ==
    {i \in 1..Len(slots) :
        /\ slots[i].some
        /\ \/ Len(slots[i].v) = 0
           \/ \E j \in 1..(i - 1) :
                 slots[j].some /\ Len(slots[j].v) # Len(slots[i].v)}

FirstBadLength(slots) ==
    CHOOSE i \in BadLengths(slots) : \A j \in BadLengths(slots) : i <= j

\* the present slots do not all have the same length
UnequalLengths(slots) ==
    \E i, j \in 1..Len(slots) :
        slots[i].some /\ slots[j].some /\ Len(slots[i].v) # Len(slots[j].v)

ValidationErrors == {"TooFewShards", "TooManyShards", "EmptyShard",
                     "IncorrectShardSize", "TooFewShardsPresent"}

\* C14, as it holds: reconstruct and reconstruct_data check the slot count
\* first (TooFewShards, TooManyShards), then the present slots in index
\* order, stopping at the first whose length is zero (EmptyShard) or, being
\* non-zero, differs from an earlier present one (IncorrectShardSize), then
\* return Ok when nothing is missing, then TooFewShardsPresent when fewer
\* than data_shard_count are present.  So all slots present with unequal
\* non-zero lengths give IncorrectShardSize and not Ok, fewer than
\* data_shard_count present with unequal non-zero lengths give
\* IncorrectShardSize and not TooFewShardsPresent, and no slot is modified
\* when one of these errors is returned.
C14_ValidationPrecedence ==
    IsReconstruct =>
        /\ IF Len(pre) < codec.total_shard_count THEN last.ret = "TooFewShards"
           ELSE IF Len(pre) > codec.total_shard_count THEN last.ret = "TooManyShards"
           ELSE IF BadLengths(pre) # {}
           THEN last.ret = IF Len(pre[FirstBadLength(pre)].v) = 0
                           THEN "EmptyShard" ELSE "IncorrectShardSize"
           ELSE IF AllPresent(pre) THEN last.ret = "Ok"
           ELSE IF NumPresent(pre) < codec.data_shard_count
           THEN last.ret = "TooFewShardsPresent"
           ELSE last.ret \notin ValidationErrors
        /\ last.ret \in ValidationErrors => shards = pre

\* C14, as stated: with total_shard_count slots, a call with all slots
\* present but unequal lengths returns IncorrectShardSize, and so does a
\* call with fewer than data_shard_count present and unequal present lengths.
C14_AsStated ==
    (IsReconstruct /\ Len(pre) = codec.total_shard_count /\ UnequalLengths(pre)
        /\ (AllPresent(pre) \/ NumPresent(pre) < codec.data_shard_count))
    => last.ret = "IncorrectShardSize"

\* two present slots of lengths 1 and 2 where three
\* are needed gave IncorrectShardSize and left the slots alone
C14_Witness ==
    /\ IsReconstruct
    /\ Len(pre) = codec.total_shard_count
    /\ codec.data_shard_count = 3
    /\ NumPresent(pre) = 2
    /\ UnequalLengths(pre)
    /\ \A i \in 1..Len(pre) : pre[i].some => Len(pre[i].v) > 0
    /\ last.ret = "IncorrectShardSize"
    /\ shards = pre

=============================================================================
